---- MODULE Spec2Model ----
(***************************************************************************)
(* A model of python-firstpaygateway: the naming converter, the temporal   *)
(* extractor, the read-only result wrapper, the client's request/response  *)
(* exchange and the error classes (src/firstpaygateway/client.py,          *)
(* src/firstpaygateway/errors.py).                                         *)
(*                                                                         *)
(* Python strings are TLA+ strings; Char(s, i) is s[i-1].  A Python value  *)
(* is a record [t |-> <type>, v |-> <payload>]; a dict is a function from  *)
(* its keys to values, a list is a sequence.                               *)
(***************************************************************************)
EXTENDS Integers, Sequences, FiniteSets, TLC

VARIABLES
  \* ---- naming converter (SpecNaming)
  ident,      \* the identifier handed to _to_camel_case
  camel,      \* _to_camel_case(ident)
  snake,      \* _to_lower_underscore(camel)
  npc,        \* "start" | "camel" | "done"
  \* ---- client (Spec)
  client,     \* the Client instance: merchant_key, processor_id, test_mode, result_opts
  local_tz,   \* the system's local timezone, tz.tzlocal(): minutes east of UTC
  pc,         \* "ready" | "called"
  call,       \* the operation called and the HTTP request it sent
  response,   \* the HTTP response body the transport returned
  outcome,    \* what the call did: returned a Result, or raised
  \* ---- result wrapper (SpecResult)
  result,     \* a Result: [data, opts]
  decoded,    \* the document Result.__init__ decoded (history)
  ipdb,       \* the environment: "missing" | "installed" (the ipdb package)
  last        \* the last attribute operation on result and what it did

namingVars == <<ident, camel, snake, npc>>
clientVars == <<client, local_tz, pc, call, response, outcome>>
resultVars == <<result, decoded, ipdb, last>>
vars == <<ident, camel, snake, npc, client, local_tz, pc, call, response,
          outcome, result, decoded, ipdb, last>>

-----------------------------------------------------------------------------
(* Characters and the classes the regular expressions use.                 *)

Char(s, i) == SubSeq(s, i, i)

LowerChars == "abcdefghijklmnopqrstuvwxyz"
UpperChars == "ABCDEFGHIJKLMNOPQRSTUVWXYZ"
DigitChars == "0123456789"

CharsOf(chars) == {Char(chars, i) : i \in 1..Len(chars)}

LowerSet == CharsOf(LowerChars)
UpperSet == CharsOf(UpperChars)
DigitSet == CharsOf(DigitChars)

IsLower(c) == c \in LowerSet
IsUpper(c) == c \in UpperSet
IsDigit(c) == c \in DigitSet

\* The class [A-z]: the code points from "A" to "z", which hold the six
\* characters between "Z" and "a" as well, the underscore among them (the
\* sixth, the grave accent, cannot be written in a TLA+ string and occurs in
\* no identifier of the model).
InAz(c) == IsUpper(c) \/ IsLower(c) \/ c \in {"[", "\\", "]", "^", "_"}

UpperOf ==
  [c \in LowerSet |-> Char(UpperChars, CHOOSE i \in 1..26 : Char(LowerChars, i) = c)]
LowerOf ==
  [c \in UpperSet |-> Char(LowerChars, CHOOSE i \in 1..26 : Char(UpperChars, i) = c)]
DigitValue ==
  [c \in DigitSet |-> (CHOOSE i \in 1..10 : Char(DigitChars, i) = c) - 1]

\* str.upper() and str.lower() of one character.
upper(c) == IF IsLower(c) THEN UpperOf[c] ELSE c
lower(c) == IF IsUpper(c) THEN LowerOf[c] ELSE c

RECURSIVE LowerFrom(_, _)
LowerFrom(s, i) ==
  IF i > Len(s) THEN "" ELSE lower(Char(s, i)) \o LowerFrom(s, i + 1)

-----------------------------------------------------------------------------
(* Naming converter.                                                       *)

\* re.sub(r'(?!^)_([A-z])', lambda m: m.group(1).upper(), s), scanning from
\* position i: an underscore that is not at the start of the string and is
\* followed by a character of [A-z] is dropped and that character upper-cased.
RECURSIVE CamelFrom(_, _)
CamelFrom(s, i) ==
  IF i > Len(s) THEN ""
  ELSE IF /\ i > 1
          /\ Char(s, i) = "_"
          /\ i + 1 <= Len(s)
          /\ InAz(Char(s, i + 1))
       THEN upper(Char(s, i + 1)) \o CamelFrom(s, i + 2)
       ELSE Char(s, i) \o CamelFrom(s, i + 1)

_to_camel_case(s) == CamelFrom(s, 1)

\* The end of the greedy run [a-z]+ that starts at position i.
RECURSIVE LowerRunEnd(_, _)
LowerRunEnd(s, i) ==
  IF i + 1 <= Len(s) /\ IsLower(Char(s, i + 1)) THEN LowerRunEnd(s, i + 1) ELSE i

\* re.sub('(.)([A-Z][a-z]+)', r'\1_\2', s) scanning from position i.
RECURSIVE WordBoundaryFrom(_, _)
WordBoundaryFrom(s, i) ==
  IF i > Len(s) THEN ""
  ELSE IF /\ i + 2 <= Len(s)
          /\ IsUpper(Char(s, i + 1))
          /\ IsLower(Char(s, i + 2))
       THEN LET j == LowerRunEnd(s, i + 2)
            IN  Char(s, i) \o "_" \o SubSeq(s, i + 1, j) \o WordBoundaryFrom(s, j + 1)
       ELSE Char(s, i) \o WordBoundaryFrom(s, i + 1)

\* re.sub('([a-z0-9])([A-Z])', r'\1_\2', s1) scanning from position i.
RECURSIVE CapBoundaryFrom(_, _)
CapBoundaryFrom(s, i) ==
  IF i > Len(s) THEN ""
  ELSE IF /\ i + 1 <= Len(s)
          /\ (IsLower(Char(s, i)) \/ IsDigit(Char(s, i)))
          /\ IsUpper(Char(s, i + 1))
       THEN Char(s, i) \o "_" \o Char(s, i + 1) \o CapBoundaryFrom(s, i + 2)
       ELSE Char(s, i) \o CapBoundaryFrom(s, i + 1)

\* _to_lower_underscore without its second substitution: a capital that
\* follows a lower-case letter or a digit gets no underscore.
_to_lower_underscore_FirstPassOnly(s) == LowerFrom(WordBoundaryFrom(s, 1), 1)

_to_lower_underscore(s) ==
  LET s1 == WordBoundaryFrom(s, 1)
  IN  LowerFrom(CapBoundaryFrom(s1, 1), 1)

-----------------------------------------------------------------------------
(* The identifiers the naming specification draws from.                    *)

MaxIdentLen == 5

IdentAlphabet == {"a", "b", "1", "_"}

RECURSIVE StringsOfLen(_)
StringsOfLen(n) ==
  IF n = 0 THEN {""}
  ELSE {s \o c : s \in StringsOfLen(n - 1), c \in IdentAlphabet}

Idents == UNION {StringsOfLen(n) : n \in 1..MaxIdentLen}

\* Python's None; also the value of a variable its specification does not use.
None == [t |-> "NoneType", v |-> "None"]

-----------------------------------------------------------------------------
(* Python values, and what an operation that may raise gives back.         *)

Str(s)   == [t |-> "str", v |-> s]
Bool(b)  == [t |-> "bool", v |-> b]
Num(n)   == [t |-> "int", v |-> n]
List(q)  == [t |-> "list", v |-> q]
Dict(f)  == [t |-> "dict", v |-> f]

Ok(v)    == [exc |-> "", val |-> v]
Raise(e) == [exc |-> e, val |-> None]

\* bool(x): what `if x`, `not x`, `x and y or z` test.
Truthy(x) ==
  CASE x.t = "NoneType" -> FALSE
    [] x.t = "bool"     -> x.v
    [] x.t = "int"      -> x.v # 0
    [] x.t = "str"      -> x.v # ""
    [] x.t = "list"     -> Len(x.v) > 0
    [] x.t = "dict"     -> DOMAIN x.v # {}
    [] OTHER            -> TRUE

-----------------------------------------------------------------------------
(* datetime, date, tzinfo.  A zone is its offset in minutes east of UTC;   *)
(* the model's dates are winter dates, where the zones it names hold one   *)
(* offset.                                                                 *)

TzInfo(offset) == [t |-> "tzinfo", v |-> offset]

\* tz.tzutc()
tzutc == TzInfo(0)

DateTime(y, mo, d, h, mi, sec, us, tzinfo) ==
  [t |-> "datetime",
   v |-> [year |-> y, month |-> mo, day |-> d, hour |-> h, minute |-> mi,
          second |-> sec, microsecond |-> us, tzinfo |-> tzinfo]]

Date(y, mo, d) == [t |-> "date", v |-> [year |-> y, month |-> mo, day |-> d]]

IsLeap(y) == (y % 4 = 0 /\ y % 100 # 0) \/ y % 400 = 0

DaysInMonth(y, mo) ==
  IF mo = 2 THEN (IF IsLeap(y) THEN 29 ELSE 28)
  ELSE IF mo \in {4, 6, 9, 11} THEN 30 ELSE 31

ValidDate(y, mo, d) ==
  y \in 1..9999 /\ mo \in 1..12 /\ d \in 1..DaysInMonth(y, mo)

\* The calendar day before and after [year, month, day].
PrevDay(r) ==
  IF r.day > 1 THEN [r EXCEPT !.day = r.day - 1]
  ELSE IF r.month > 1
       THEN [r EXCEPT !.month = r.month - 1, !.day = DaysInMonth(r.year, r.month - 1)]
       ELSE [r EXCEPT !.year = r.year - 1, !.month = 12, !.day = 31]

NextDay(r) ==
  IF r.day < DaysInMonth(r.year, r.month) THEN [r EXCEPT !.day = r.day + 1]
  ELSE IF r.month < 12
       THEN [r EXCEPT !.month = r.month + 1, !.day = 1]
       ELSE [r EXCEPT !.year = r.year + 1, !.month = 1, !.day = 1]

\* datetime.replace(tzinfo=...): the fields are kept, the zone is relabelled.
replace_tzinfo(dt, tzinfo) == [dt EXCEPT !.v.tzinfo = tzinfo]

\* An aware datetime moved to another zone: the same instant, the wall clock
\* shifted by the difference of the offsets (less than a day either way).
ShiftZone(dt, zone) ==
  LET minutes == dt.v.hour * 60 + dt.v.minute + (zone.v - dt.v.tzinfo.v)
      r0      == dt.v
      r       == IF minutes < 0 THEN PrevDay(r0)
                 ELSE IF minutes >= 1440 THEN NextDay(r0) ELSE r0
      m       == minutes % 1440
  IN  [t |-> "datetime",
       v |-> [r EXCEPT !.hour = m \div 60, !.minute = m % 60, !.tzinfo = zone]]

\* datetime.astimezone called with one keyword argument: the parameter is
\* named tz, and any other keyword is a TypeError.  A naive datetime is taken
\* to be in the system's local zone.
astimezone(dt, keyword, zone, localzone) ==
  IF keyword # "tz" THEN Raise("TypeError")
  ELSE IF dt.v.tzinfo.t = "NoneType"
       THEN Ok(ShiftZone(replace_tzinfo(dt, TzInfo(localzone)), zone))
       ELSE Ok(ShiftZone(dt, zone))

\* datetime.combine(d, time): d's year, month and day with the given time of
\* day; when d is a datetime its own time of day and zone are ignored.
combine(d, h, mi, sec, us) ==
  DateTime(d.v.year, d.v.month, d.v.day, h, mi, sec, us, None)

\* The zones dateutil's tz.gettz knows, by name.
ZoneNames == {"America/New_York", "UTC"}
ZoneOffset(name) == IF name = "America/New_York" THEN -300 ELSE 0

\* tz.gettz(name): None (and the empty string) mean the local zone, a name
\* the zone database does not hold gives None.
gettz(name, localzone) ==
  IF name.t = "NoneType" \/ name.v = "" THEN TzInfo(localzone)
  ELSE IF name.v \in ZoneNames THEN TzInfo(ZoneOffset(name.v))
  ELSE None


-----------------------------------------------------------------------------
(* Temporal extractor.                                                     *)

\* \d at every position from a to b.
Digits(s, a, b) == \A i \in a..b : IsDigit(Char(s, i))

\* int(s[a-1:b])
RECURSIVE ToInt(_, _, _)
ToInt(s, a, b) ==
  IF b < a THEN 0
  ELSE ToInt(s, a, b - 1) * 10 + DigitValue[Char(s, b)]

\* ISO_DATETIME_RE = ^\d{4}-\d{2}-\d{2}(T\d{2}:\d{2}(:\d{2}(\.\d+)?)?)?$
ISO_DATETIME_RE(s) ==
  LET n == Len(s)
  IN  /\ n >= 10
      /\ Digits(s, 1, 4) /\ Char(s, 5) = "-"
      /\ Digits(s, 6, 7) /\ Char(s, 8) = "-"
      /\ Digits(s, 9, 10)
      /\ \/ n = 10
         \/ /\ n >= 16
            /\ Char(s, 11) = "T"
            /\ Digits(s, 12, 13) /\ Char(s, 14) = ":"
            /\ Digits(s, 15, 16)
            /\ \/ n = 16
               \/ /\ n >= 19
                  /\ Char(s, 17) = ":"
                  /\ Digits(s, 18, 19)
                  /\ \/ n = 19
                     \/ n >= 21 /\ Char(s, 20) = "." /\ Digits(s, 21, n)

\* DATE_RE = ^\d{2}\d{2}\d{4}$
DATE_RE(s) == Len(s) = 8 /\ Digits(s, 1, 8)

\* TIME_RE = \d{1:2}:\d{2}( ([AP]M))?$ under re.match: "{1:2}" is no
\* quantifier, so the pattern asks for one digit, the six characters {1:2}:
\* literally, two digits and an optional " AM" or " PM", up to the end.
TIME_RE(s) ==
  LET n == Len(s)
  IN  /\ n \in {9, 12}
      /\ IsDigit(Char(s, 1))
      /\ SubSeq(s, 2, 7) = "{1:2}:"
      /\ Digits(s, 8, 9)
      /\ n = 12 => SubSeq(s, 10, 12) \in {" AM", " PM"}

\* Microseconds of the fraction digits s[a..b]: at most six are read, and
\* they are padded with zeros on the right.
RECURSIVE Pow10(_)
Pow10(k) == IF k = 0 THEN 1 ELSE 10 * Pow10(k - 1)

Microseconds(s, a, b) ==
  IF b < a THEN 0
  ELSE LET e == IF b - a + 1 > 6 THEN a + 5 ELSE b
       IN  ToInt(s, a, e) * Pow10(6 - (e - a + 1))

\* dateutil's parse() of a string ISO_DATETIME_RE matches: a naive datetime,
\* midnight when the string holds no time; a field out of range is an error.
parse_iso(s) ==
  LET n   == Len(s)
      y   == ToInt(s, 1, 4)
      mo  == ToInt(s, 6, 7)
      d   == ToInt(s, 9, 10)
      h   == IF n >= 16 THEN ToInt(s, 12, 13) ELSE 0
      mi  == IF n >= 16 THEN ToInt(s, 15, 16) ELSE 0
      sec == IF n >= 19 THEN ToInt(s, 18, 19) ELSE 0
      us  == IF n >= 21 THEN Microseconds(s, 21, n) ELSE 0
  IN  IF ValidDate(y, mo, d) /\ h < 24 /\ mi < 60 /\ sec < 60
      THEN Ok(DateTime(y, mo, d, h, mi, sec, us, None))
      ELSE Raise("ParserError")

\* dateutil's parse() of eight digits reads them as YYYYMMDD; .date() of it.
parse_digits8(s) ==
  LET y == ToInt(s, 1, 4)  mo == ToInt(s, 5, 6)  d == ToInt(s, 7, 8)
  IN  IF ValidDate(y, mo, d) THEN Ok(Date(y, mo, d)) ELSE Raise("ParserError")

_extract_datetime(value) ==
  IF value.t # "str" THEN Ok(None)
  ELSE IF ISO_DATETIME_RE(value.v) THEN parse_iso(value.v)
  ELSE IF DATE_RE(value.v) THEN parse_digits8(value.v)
  ELSE IF TIME_RE(value.v) THEN Raise("ParserError")
  ELSE Ok(None)

TZ_AWARE_FIELDS == {"trans_date_and_time"}

\* _get_date_value from `if date_value:` on, date_value being what
\* _extract_datetime gave.  date.replace() takes no tzinfo: a date there is
\* a TypeError.
LocalizeDateValue(opts, localzone, attrname, extracted, gateway_tz) ==
  IF attrname \in TZ_AWARE_FIELDS /\ Truthy(gateway_tz)
  THEN IF extracted.val.t # "datetime" THEN Raise("TypeError")
       ELSE astimezone(replace_tzinfo(extracted.val, gateway_tz),
                       "tzinfo", tzutc, localzone)
  ELSE extracted

DateValueOf(opts, localzone, attrname, extracted) ==
  IF extracted.exc # "" THEN extracted
  ELSE IF ~Truthy(extracted.val) THEN extracted
  ELSE LocalizeDateValue(opts, localzone, attrname, extracted,
                         gettz(opts["gateway_tz"], localzone))

\* ResultObject._get_date_value(attrname, value), opts being self._opts.
_get_date_value(opts, localzone, attrname, value) ==
  DateValueOf(opts, localzone, attrname, _extract_datetime(value))

-----------------------------------------------------------------------------
(* Result wrapper.  An instance is its attribute dictionary: _data, _opts  *)
(* and, for a Result, _raw_response.                                       *)

\* n written with w digits.
RECURSIVE Pad(_, _)
Pad(n, w) ==
  IF w = 0 THEN "" ELSE Pad(n \div 10, w - 1) \o Char(DigitChars, (n % 10) + 1)

\* The UTC offset isoformat() appends to an aware value: +HH:MM or -HH:MM.
OffsetText(minutes) ==
  IF minutes < 0
  THEN "-" \o Pad((0 - minutes) \div 60, 2) \o ":" \o Pad((0 - minutes) % 60, 2)
  ELSE "+" \o Pad(minutes \div 60, 2) \o ":" \o Pad(minutes % 60, 2)

\* date.isoformat()
DateText(x) ==
  Pad(x.v.year, 4) \o "-" \o Pad(x.v.month, 2) \o "-" \o Pad(x.v.day, 2)

\* date.isoformat() and datetime.isoformat()
isoformat(x) ==
  IF x.t = "date" THEN DateText(x)
  ELSE DateText(x) \o "T" \o Pad(x.v.hour, 2) \o ":" \o Pad(x.v.minute, 2)
         \o ":" \o Pad(x.v.second, 2)
         \o (IF x.v.microsecond # 0 THEN "." \o Pad(x.v.microsecond, 6) ELSE "")
         \o (IF x.v.tzinfo.t = "tzinfo" THEN OffsetText(x.v.tzinfo.v) ELSE "")

\* The options dict a Client hands to its results.
ResultOpts(gateway_tz) == Dict("gateway_tz" :> gateway_tz)

\* ResultObject.__init__(data, opts)
ResultObject(data, opts) ==
  [t |-> "ResultObject", v |-> ("_data" :> data @@ "_opts" :> opts)]

\* __getattr__ from `if date_value:` on.
WrapValue(self, value, date_value) ==
  IF date_value.exc # "" THEN date_value
  ELSE IF Truthy(date_value.val) THEN date_value
  ELSE IF value.t = "dict" THEN Ok(ResultObject(value, self["_opts"]))
  ELSE IF value.t = "list"
       THEN Ok(List([i \in 1..Len(value.v) |->
                       IF value.v[i].t = "dict"
                       THEN ResultObject(value.v[i], self["_opts"])
                       ELSE value.v[i]]))
  ELSE Ok(value)

\* __getattr__ from the second `if key not in self._data` on.
LookupKey(self, localzone, key) ==
  IF key \notin DOMAIN self["_data"].v THEN Raise("AttributeError")
  ELSE WrapValue(self, self["_data"].v[key],
                 _get_date_value(self["_opts"].v, localzone, key,
                                 self["_data"].v[key]))

\* __getattr__ from the first `if key not in self._data` on: the PascalCase
\* retry; key[0] of an empty key is an IndexError.
LookupCamelKey(self, localzone, key) ==
  IF key \in DOMAIN self["_data"].v THEN LookupKey(self, localzone, key)
  ELSE IF key = "" THEN Raise("IndexError")
  ELSE LookupKey(self, localzone, upper(Char(key, 1)) \o SubSeq(key, 2, Len(key)))

\* ResultObject.__getattr__(attr), which Python calls when the instance
\* holds no attribute of that name.
__getattr__(self, localzone, attr) ==
  LookupCamelKey(self, localzone, _to_camel_case(attr))

\* getattr(self, attr): the instance's own attributes first.
getattr(self, localzone, attr) ==
  IF attr \in DOMAIN self THEN Ok(self[attr]) ELSE __getattr__(self, localzone, attr)

\* str.startswith('_')
StartsWithUnderscore(attr) == Len(attr) >= 1 /\ Char(attr, 1) = "_"

\* ResultObject.__setattr__(attr, value): [exc, self], self being the
\* instance afterwards.  The import of ipdb fails where the package is not
\* installed; where it is, set_trace() hands control to the debugger, whose
\* user either continues (the raise follows) or quits (BdbQuit).
__setattr__(self, ipdbState, debuggerCommand, attr, value) ==
  IF ~StartsWithUnderscore(attr)
  THEN IF ipdbState = "missing" THEN [exc |-> "ModuleNotFoundError", self |-> self]
       ELSE IF debuggerCommand = "quit" THEN [exc |-> "BdbQuit", self |-> self]
       ELSE [exc |-> "AttributeError", self |-> self]
  ELSE [exc |-> "", self |-> (attr :> value) @@ self]

\* ResultObject.__dir__(): the names, which dir() then sorts.
__dir__(self) == {_to_lower_underscore(k) : k \in DOMAIN self["_data"].v}

\* The leaf branch of change_repr: date_val and date_val.isoformat() or val.
ReprLeaf(val, date_val) ==
  IF date_val.exc # "" THEN [excs |-> {date_val.exc}, val |-> None]
  ELSE [excs |-> {},
        val  |-> IF Truthy(date_val.val) THEN Str(isoformat(date_val.val)) ELSE val]

\* The list branch, rs being change_repr of each element.
ReprList(rs) ==
  [excs |-> UNION {rs[i].excs : i \in DOMAIN rs},
   val  |-> List([i \in DOMAIN rs |-> rs[i].val])]

\* The dict change_repr returns, items being the rewritten (new_key, val)
\* pairs.  Two keys with one snake_case form overwrite one another; the
\* model's documents hold no such pair.
ReprDict(items) ==
  [excs |-> UNION {it.r.excs : it \in items},
   val  |-> Dict([nk \in {it.new_key : it \in items} |->
                    (CHOOSE it \in items : it.new_key = nk).r.val])]

\* change_repr(o) of ResultObject.__repr__: [excs, val]. val is the rewritten
\* tree when nothing raises; excs holds the exceptions the walk can raise:
\* which of them comes first depends on the order of the document's keys.
RECURSIVE change_repr(_, _, _)
change_repr(self, localzone, o) ==
  IF o.t # "dict" THEN [excs |-> {"AttributeError"}, val |-> None]
  ELSE ReprDict(
         {[new_key |-> _to_lower_underscore(key),
           r |-> IF o.v[key].t = "dict" THEN change_repr(self, localzone, o.v[key])
                 ELSE IF o.v[key].t = "list"
                 THEN ReprList([i \in 1..Len(o.v[key].v) |->
                                  change_repr(self, localzone, o.v[key].v[i])])
                 ELSE ReprLeaf(o.v[key],
                               _get_date_value(self["_opts"].v, localzone,
                                               _to_lower_underscore(key), o.v[key]))]
          : key \in DOMAIN o.v})

\* _json_dump(obj): the JSON text of a tree of dicts, lists and scalars, kept
\* as the tree it writes.
_json_dump(obj) == [t |-> "json_text", v |-> obj]

ReprOf(r) == [excs |-> r.excs, val |-> _json_dump(r.val)]

\* ResultObject.__repr__()
__repr__(self, localzone) == ReprOf(change_repr(self, localzone, self["_data"]))

\* An HTTP response: its text, and the value json.loads(text) gives, or
\* NotJSON when the text is no JSON document.
NotJSON == [t |-> "JSONDecodeError", v |-> "None"]

json_loads(resp) ==
  IF resp.json.t = "JSONDecodeError" THEN Raise("JSONDecodeError")
  ELSE Ok(resp.json)

\* Result.__init__ after the try: data is the decoded document, or the
\* failure document written in its place.
ResultOf(resp, opts, loaded) ==
  ("_raw_response" :> resp)
  @@ ResultObject(IF loaded.exc = "JSONDecodeError"
                  THEN Dict(("isSuccess" :> Bool(FALSE))
                            @@ ("errorMessages" :> List(<<Str(resp.text)>>)))
                  ELSE loaded.val,
                  opts).v

\* Result.__init__(response, opts)
Result(resp, opts) == ResultOf(resp, opts, json_loads(resp))

-----------------------------------------------------------------------------
(* Error classes (errors.py).  An exception instance is its attribute      *)
(* dictionary; args is what reached BaseException.__init__.                *)

\* x[0]
FirstItem(x) ==
  IF x.t = "list" THEN (IF Len(x.v) = 0 THEN Raise("IndexError") ELSE Ok(x.v[1]))
  ELSE IF x.t = "str"
       THEN (IF x.v = "" THEN Raise("IndexError") ELSE Ok(Str(Char(x.v, 1))))
  ELSE Raise("TypeError")

\* The end of both __init__: super(Exception, self).__init__(
\* self.error_messages[0]), first being self.error_messages[0].
InitBase(self, first) ==
  IF first.exc # "" THEN [exc |-> first.exc, self |-> <<>>]
  ELSE [exc |-> "", self |-> ("args" :> first.val) @@ self]

\* GatewayError.__init__ once self.error_messages is evaluated.
SetErrorMessages(self, messages) ==
  IF messages.exc # "" THEN [exc |-> messages.exc, self |-> <<>>]
  ELSE InitBase(("error_messages" :> messages.val) @@ self, FirstItem(messages.val))

\* [e.message for e in self.validation_failures]: GatewayError.__init__
\* reads the list from self, where only GatewayValidationError.__init__
\* would have put it, and that one never calls GatewayError.__init__.
FailureMessages(self, localzone) ==
  IF "validation_failures" \notin DOMAIN self THEN Raise("AttributeError")
  ELSE IF self["validation_failures"].t # "list" THEN Raise("TypeError")
  ELSE IF \E i \in 1..Len(self["validation_failures"].v) :
            \/ self["validation_failures"].v[i].t # "ResultObject"
            \/ getattr(self["validation_failures"].v[i].v, localzone, "message").exc # ""
       THEN Raise("AttributeError")
  ELSE Ok(List([i \in 1..Len(self["validation_failures"].v) |->
                  getattr(self["validation_failures"].v[i].v, localzone, "message").val]))

\* GatewayError.__init__ from `if result.validation_has_failed:` on.
GatewayErrorMessages(self, res, localzone, failed) ==
  IF failed.exc # "" THEN [exc |-> failed.exc, self |-> <<>>]
  ELSE SetErrorMessages(self,
         IF Truthy(failed.val) THEN FailureMessages(self, localzone)
         ELSE getattr(res, localzone, "error_messages"))

\* GatewayError.__init__(self, result), self holding the attributes set so
\* far: [exc, self].  An exception raised inside leaves no instance.
GatewayError__init__(self, res, localzone) ==
  GatewayErrorMessages(("result" :> [t |-> "Result", v |-> res]) @@ self,
                       res, localzone,
                       getattr(res, localzone, "validation_has_failed"))

\* GatewayValidationError.__init__ after self.validation_failures is set:
\* self.error_messages[0] is read from an instance nothing gave that
\* attribute (GatewayError.__init__ is not called: super(Exception, self)
\* is BaseException).
ValidationErrorBase(self) ==
  IF "error_messages" \notin DOMAIN self
  THEN [exc |-> "AttributeError", self |-> <<>>]
  ELSE InitBase(self, FirstItem(self["error_messages"]))

ValidationErrorFailures(self, failures) ==
  IF failures.exc # "" THEN [exc |-> failures.exc, self |-> <<>>]
  ELSE ValidationErrorBase(("validation_failures" :> failures.val) @@ self)

\* GatewayValidationError.__init__(self, result)
GatewayValidationError__init__(self, res, localzone) ==
  ValidationErrorFailures(self, getattr(res, localzone, "validation_failures"))

-----------------------------------------------------------------------------
(* Client.                                                                 *)

\* Client.__init__(merchant_key, processor_id, gateway_tz, test_mode)
Client(merchant_key, processor_id, gateway_tz, test_mode) ==
  [merchant_key |-> merchant_key, processor_id |-> processor_id,
   test_mode |-> test_mode, result_opts |-> ResultOpts(gateway_tz)]

\* Client.url
url(self) ==
  "https://"
  \o (IF self.test_mode THEN "secure-v.goemerchant.com" ELSE "secure.1stpaygateway.net")
  \o "/secure/RestGW/Gateway/Transaction/"

\* urljoin(base, ref) for a ref that is one relative path segment: base up
\* to and including its last "/", then ref.
RECURSIVE LastSlash(_, _)
LastSlash(s, i) == IF i = 0 \/ Char(s, i) = "/" THEN i ELSE LastSlash(s, i - 1)

urljoin(base, ref) == SubSeq(base, 1, LastSlash(base, Len(base))) \o ref

\* _json_default(obj), for the values json.dumps cannot write itself.
_json_default(obj) ==
  IF obj.t \in {"date", "datetime"} THEN Str(isoformat(obj)) ELSE obj

\* json.dumps(post_data, default=_json_default): the JSON text, kept as the
\* object it writes.
Payload(post_data) == [k \in DOMAIN post_data |-> _json_default(post_data[k])]

\* The outcome of a call: a Result returned, or an exception raised.
Returned(res) == [kind |-> "returned", exc |-> "", self |-> res]
Raised(exc, self) == [kind |-> "raised", exc |-> exc, self |-> self]

\* raise <class>(result): the constructor's own exception, or the instance.
RaiseError(class, made) ==
  IF made.exc # "" THEN Raised(made.exc, <<>>) ELSE Raised(class, made.self)

\* dict without the keys ks: what data.pop leaves.
Without(data, ks) == [k \in DOMAIN data \ ks |-> data[k]]

\* The loop of request over data.items(): every key converted to camelCase.
\* Two keys with one camelCase form overwrite one another; the model's calls
\* hold no such pair.
RECURSIVE ConvertKeys(_)
ConvertKeys(data) ==
  IF DOMAIN data = {} THEN <<>>
  ELSE (_to_camel_case(CHOOSE k \in DOMAIN data : TRUE)
          :> data[CHOOSE k \in DOMAIN data : TRUE])
       @@ ConvertKeys(Without(data, {CHOOSE k \in DOMAIN data : TRUE}))

\* request inside `if not result.is_success:`, failed being
\* result.validation_has_failed.
ClassifyFailure(res, localzone, failed) ==
  IF failed.exc # "" THEN Raised(failed.exc, <<>>)
  ELSE IF Truthy(failed.val)
  THEN RaiseError("GatewayValidationError",
                  GatewayValidationError__init__(<<>>, res, localzone))
  ELSE RaiseError("GatewayError", GatewayError__init__(<<>>, res, localzone))

\* request reading result.validation_has_failed before it tests
\* result.is_success, so that a document without the flag never returns.
Classify_FlagFirst(res, localzone, succeeded) ==
  IF succeeded.exc # "" THEN Raised(succeeded.exc, <<>>)
  ELSE LET failed == getattr(res, localzone, "validation_has_failed")
       IN  IF failed.exc # "" THEN Raised(failed.exc, <<>>)
           ELSE IF Truthy(succeeded.val) THEN Returned(res)
           ELSE ClassifyFailure(res, localzone, failed)

\* request from `if not result.is_success:` on, succeeded being
\* result.is_success.
Classify(res, localzone, succeeded) ==
  IF succeeded.exc # "" THEN Raised(succeeded.exc, <<>>)
  ELSE IF ~Truthy(succeeded.val)
  THEN ClassifyFailure(res, localzone,
                       getattr(res, localzone, "validation_has_failed"))
  ELSE Returned(res)

\* request from `result = Result(response, self.result_opts)` on.
Respond(res, localzone) == Classify(res, localzone, getattr(res, localzone, "is_success"))

\* Client.request(action, data) when the transport answers resp:
\* [url, post_data, outcome], post_data being the body it posted.
request(self, localzone, action, data, resp) ==
  [url       |-> urljoin(url(self), action),
   post_data |-> Payload(("merchantKey" :> Str(self.merchant_key))
                         @@ ("processorId" :> Str(self.processor_id))
                         @@ ConvertKeys(data)),
   outcome   |-> Respond(Result(resp, self.result_opts), localzone)]

\* The dict _get_date_params returns, utc_dt being the boundary in UTC.
DateParams(prefix, utc_dt) ==
  ("query_" \o prefix \o "_year" :> Num(utc_dt.year))
  @@ ("query_" \o prefix \o "_month" :> Num(utc_dt.month))
  @@ ("query_" \o prefix \o "_day" :> Num(utc_dt.day))
  @@ ("query_" \o prefix \o "_hour" :> Num(utc_dt.hour % 12))
  @@ ("query_" \o prefix \o "_minute" :> Num(utc_dt.minute))
  @@ ("query_" \o prefix \o "_AMPM" :> Str(IF utc_dt.hour < 12 THEN "AM" ELSE "PM"))

\* _get_date_params after the isinstance test: dt.tzinfo of a value that is
\* no datetime is an AttributeError; a naive value is labelled with the
\* local zone; the value is then converted to UTC.
DateParamsOf(prefix, dt, localzone) ==
  IF dt.t # "datetime" THEN Raise("AttributeError")
  ELSE Ok(DateParams(prefix,
            astimezone(IF dt.v.tzinfo.t = "NoneType"
                       THEN replace_tzinfo(dt, TzInfo(localzone)) ELSE dt,
                       "tz", tzutc, localzone).val.v))

\* _get_date_params(prefix, dt): [exc, val], val the six parameters.
\* isinstance(dt, date) holds for a date and for a datetime, which is a date.
_get_date_params(prefix, dt, localzone) ==
  DateParamsOf(prefix,
               IF dt.t \in {"date", "datetime"}
               THEN IF prefix = "end" THEN combine(dt, 23, 59, 59, 999999)
                    ELSE combine(dt, 0, 0, 0, 0)
               ELSE dt,
               localzone)

\* query after the two pops: data holds the other arguments.
QueryRequest(self, localzone, data, sp, ep, resp) ==
  IF sp.exc # ""
  THEN [url |-> "", post_data |-> <<>>, outcome |-> Raised(sp.exc, <<>>)]
  ELSE IF ep.exc # ""
  THEN [url |-> "", post_data |-> <<>>, outcome |-> Raised(ep.exc, <<>>)]
  ELSE request(self, localzone, "Query", ep.val @@ sp.val @@ data, resp)

QueryDates(self, localzone, data, start_date, end_date, resp) ==
  QueryRequest(self, localzone,
               IF Truthy(start_date) \/ Truthy(end_date)
               THEN ("query_time_zone_offset" :> Num(0)) @@ data ELSE data,
               IF Truthy(start_date)
               THEN _get_date_params("start", start_date, localzone) ELSE Ok(<<>>),
               IF Truthy(end_date)
               THEN _get_date_params("end", end_date, localzone) ELSE Ok(<<>>),
               resp)

\* Client.query(**data)
query(self, localzone, data, resp) ==
  QueryDates(self, localzone, Without(data, {"start_date", "end_date"}),
             IF "start_date" \in DOMAIN data THEN data["start_date"] ELSE None,
             IF "end_date" \in DOMAIN data THEN data["end_date"] ELSE None,
             resp)

\* The operation methods of Client other than query, each with the action
\* name it hands to request.
Operations ==
  ("create_auth" :> "Auth")
  @@ ("create_auth_using_vault" :> "AuthUsingValut")
  @@ ("create_sale" :> "Sale")
  @@ ("create_sale_vault" :> "SaleUsingVault")
  @@ ("create_credit" :> "Credit")
  @@ ("create_credit_retail_only" :> "CreditRetailOnly")
  @@ ("create_credit_retail_only_using_vault" :> "CreditRetailOnlyUsingVault")
  @@ ("perform_void" :> "Void")
  @@ ("create_re_auth" :> "ReAuth")
  @@ ("create_re_sale" :> "ReSale")
  @@ ("create_re_debit" :> "ReDebit")
  @@ ("close_batch" :> "CloseBatch")
  @@ ("perform_settle" :> "Settle")
  @@ ("apply_tip_adjust" :> "TipAdjust")
  @@ ("perform_ach_void" :> "AchVoid")
  @@ ("create_ach_credit" :> "AchCredit")
  @@ ("create_ach_debit" :> "AchDebit")
  @@ ("create_ach_credit_using_vault" :> "AchCreditUsingVault")
  @@ ("create_ach_debit_using_vault" :> "AchDebitUsingVault")
  @@ ("get_ach_categories" :> "AchGetCategories")
  @@ ("create_ach_categories" :> "AchCreateCategory")
  @@ ("delete_ach_categories" :> "AchDeleteCategory")
  @@ ("setup_ach_store" :> "AchSetupStore")
  @@ ("create_vault_container" :> "VaultCreateContainer")
  @@ ("create_vault_ach_record" :> "VaultCreateAchRecord")
  @@ ("create_vault_credit_card_record" :> "VaultCreateCCRecord")
  @@ ("create_vault_shipping_record" :> "VaultCreateShippingRecord")
  @@ ("delete_vault_container_and_all_assc_data" :> "VaultDeleteContainerAndAllAsscData")
  @@ ("delete_vault_ach_record" :> "VaultDeleteAchRecord")
  @@ ("delete_vault_credit_card_record" :> "VaultDeleteCCRecord")
  @@ ("delete_vault_shipping_record" :> "VaultDeleteShippingRecord")
  @@ ("update_vault_container" :> "VaultUpdateContainer")
  @@ ("update_vault_ach_record" :> "VaultUpdateAchRecord")
  @@ ("update_vault_credit_card_record" :> "VaultUpdateCCRecord")
  @@ ("update_vault_shipping_record" :> "VaultUpdateShippingRecord")
  @@ ("query_vault" :> "VaultQueryVault")
  @@ ("query_vault_for_credit_card_records" :> "VaultQueryCCRecord")
  @@ ("query_vault_for_ach_records" :> "VaultQueryAchRecord")
  @@ ("query_vault_for_shipping_records" :> "VaultQueryShippingRecord")
  @@ ("modify_recurring" :> "RecurringModify")
  @@ ("submit_acct_updater" :> "AccountUpdaterSubmit")
  @@ ("submit_acct_updater_vault" :> "AccountUpdaterSubmitVault")
  @@ ("get_acct_updater_return" :> "AccountUpdaterReturn")

-----------------------------------------------------------------------------
(* The responses and the environments the specifications draw from.        *)

MaxFailures == 2
MaxMessages == 1

Presence == {"absent", "true", "false"}
Extras == {"none", "txn"}

ValidationFailure(i) ==
  Dict(("key" :> Str("field" \o Pad(i, 1))) @@ ("message" :> Str("invalid " \o Pad(i, 1))))

ErrorMessage(i) == Str("error " \o Pad(i, 1))

TxnFields ==
  ("transDateAndTime" :> Str("2023-01-15T10:30:00"))
  @@ ("data" :> Dict(("orderId" :> Str("A1"))
                     @@ ("TransDateAndTime" :> Str("2023-01-15T23:45:00"))
                     @@ ("refNumber" :> Num(7))))

BatchFields ==
  ("settleDate" :> Str("2023-01-16"))
  @@ ("batch" :> Dict(("batchId" :> Num(3)) @@ ("closedAt" :> Str("2023-01-16T08:05"))))

\* A response document: the success flag, the validation flag, the list of
\* validation failures and the list of error messages, each present or not
\* (a count of -1: absent), and the other fields it carries.
Document(succ, flag, nFail, nMsg, extra) ==
  LET keys == (IF succ # "absent" THEN {"isSuccess"} ELSE {})
              \cup (IF flag # "absent" THEN {"validationHasFailed"} ELSE {})
              \cup (IF nFail >= 0 THEN {"validationFailures"} ELSE {})
              \cup (IF nMsg >= 0 THEN {"errorMessages"} ELSE {})
      core == [k \in keys |->
                 CASE k = "isSuccess"           -> Bool(succ = "true")
                   [] k = "validationHasFailed" -> Bool(flag = "true")
                   [] k = "validationFailures"  ->
                        List([i \in 1..nFail |-> ValidationFailure(i)])
                   [] k = "errorMessages"       ->
                        List([i \in 1..nMsg |-> ErrorMessage(i)])]
  IN  Dict(core @@ (IF extra = "txn" THEN TxnFields
                    ELSE IF extra = "batch" THEN BatchFields
                    ELSE <<>>))

Documents ==
  {Document(succ, flag, nFail, nMsg, extra) :
     succ \in Presence, flag \in Presence,
     nFail \in -1..MaxFailures, nMsg \in -1..MaxMessages, extra \in Extras}

\* Response bodies: a JSON document, or text that is no JSON.
Responses ==
  {[text |-> "{...}", json |-> d] : d \in Documents}
  \cup {[text |-> body, json |-> NotJSON] :
          body \in {"Service Unavailable", "<html>502</html>"}}

\* tz.tzlocal(): UTC, US Eastern and Japan, in minutes east of UTC.
LocalZones == {0, -300, 540}

\* The gateway_tz argument of Client: not given, a zone, a name that is none.
GatewayZones == {None, Str("America/New_York"), Str("Mars/Olympus")}

NamingIdle == ident = "" /\ camel = "" /\ snake = "" /\ npc = "idle"
ClientIdle ==
  /\ client = None /\ local_tz = 0 /\ pc = "idle"
  /\ call = None /\ response = None /\ outcome = None
ResultIdle == result = None /\ decoded = None /\ ipdb = "missing" /\ last = None

-----------------------------------------------------------------------------
(* SpecNaming: an identifier is converted to camelCase and back.           *)

InitNaming ==
  /\ ident \in Idents
  /\ camel = ""
  /\ snake = ""
  /\ npc = "start"
  /\ ClientIdle
  /\ ResultIdle

ToCamelCase ==
  /\ npc = "start"
  /\ camel' = _to_camel_case(ident)
  /\ npc' = "camel"
  /\ UNCHANGED <<ident, snake, clientVars, resultVars>>

ToLowerUnderscore ==
  /\ npc = "camel"
  /\ snake' = _to_lower_underscore(camel)
  /\ npc' = "done"
  /\ UNCHANGED <<ident, camel, clientVars, resultVars>>

NextNaming == ToCamelCase \/ ToLowerUnderscore

SpecNaming == InitNaming /\ [][NextNaming]_vars

IsLetter(c) == IsLower(c) \/ IsUpper(c)

-----------------------------------------------------------------------------
(* Spec: a Client is constructed and its operations are called; the        *)
(* transport answers each call with one response.                          *)

\* Keyword arguments of an operation call.
OperationData ==
  {("order_id" :> Str("A1")) @@ ("transaction_amount" :> Str("9.99"))
     @@ ("ship_date" :> Date(2023, 1, 20))}

\* A boundary of a query: a bare date, a naive datetime, an aware datetime.
QueryBoundaries ==
  {Date(2023, 1, 1), Date(2023, 1, 31),
   DateTime(2023, 1, 1, 15, 30, 0, 0, None),
   DateTime(2022, 12, 31, 21, 5, 0, 0, TzInfo(-300))}

QueryData ==
  {("order_id" :> Str("A1")) @@ s @@ e :
     s \in {<<>>} \cup {("start_date" :> b) : b \in QueryBoundaries},
     e \in {<<>>} \cup {("end_date" :> b) : b \in QueryBoundaries}}

Init ==
  /\ NamingIdle
  /\ ResultIdle
  /\ \E gateway_tz \in GatewayZones, test_mode \in BOOLEAN :
       client = Client("merchant-key", "processor-id", gateway_tz, test_mode)
  /\ local_tz \in LocalZones
  /\ pc = "ready"
  /\ call = None
  /\ response = None
  /\ outcome = None

\* What a call r = [url, post_data, outcome] leaves behind.
Called(method, data, r) ==
  /\ call' = [method |-> method, data |-> data,
              url |-> r.url, post_data |-> r.post_data]
  /\ outcome' = r.outcome

\* client.<method>(**data), for every operation method but query
CallOperation ==
  /\ pc = "ready"
  /\ \E method \in DOMAIN Operations, data \in OperationData, resp \in Responses :
       /\ Called(method, data,
                 request(client, local_tz, Operations[method], data, resp))
       /\ response' = resp
  /\ pc' = "called"
  /\ UNCHANGED <<namingVars, resultVars, client, local_tz>>

\* client.query(**data)
CallQuery ==
  /\ pc = "ready"
  /\ \E data \in QueryData, resp \in Responses :
       /\ Called("query", data, query(client, local_tz, data, resp))
       /\ response' = resp
  /\ pc' = "called"
  /\ UNCHANGED <<namingVars, resultVars, client, local_tz>>

Next == CallOperation \/ CallQuery

Spec == Init /\ [][Next]_vars

-----------------------------------------------------------------------------
(* SpecResult: a Result is built from a response, and its holder reads,    *)
(* assigns, lists and prints its attributes.                               *)

AttrNames ==
  {"is_success", "validation_has_failed", "validation_failures",
   "error_messages", "trans_date_and_time", "data", "settle_date", "batch",
   "order_id", "_data", "_note"}

NestedAttrNames == {"order_id", "trans_date_and_time", "ref_number", "closed_at", "message"}

\* The responses the wrapper is built from: documents of every shape (scalar
\* leaves, date strings, nested objects, lists of objects, lists of scalars)
\* and bodies that are no JSON.
WrapperResponses ==
  {[text |-> "{...}", json |-> d] :
     d \in {Document("true", "absent", -1, -1, extra) : extra \in {"txn", "batch"}}
        \cup {Document("false", "true", n, -1, "none") : n \in 0..MaxFailures}
        \cup {Document("false", "false", -1, n, "batch") : n \in 0..MaxMessages}}
  \cup {[text |-> "Service Unavailable", json |-> NotJSON]}

AssignedNames == {"is_success", "foo", "_note"}
AssignedValues == {Str("x")}

InitResult ==
  /\ NamingIdle
  /\ client = None /\ pc = "idle" /\ call = None /\ outcome = None
  /\ local_tz \in LocalZones
  /\ ipdb \in {"missing", "installed"}
  /\ response \in WrapperResponses
  /\ \E gateway_tz \in GatewayZones :
       result = Result(response, ResultOpts(gateway_tz))
  /\ decoded = result["_data"]
  /\ last = [op |-> "init", attr |-> "", exc |-> "", val |-> None]

\* What an attribute operation r = [exc, val] leaves behind.
Did(op, attr, r) == last' = [op |-> op, attr |-> attr, exc |-> r.exc, val |-> r.val]

Assigned(attr, r) ==
  /\ result' = r.self
  /\ last' = [op |-> "setattr", attr |-> attr, exc |-> r.exc, val |-> None]

\* repr gives the text, or raises one of the exceptions the walk can raise.
Printed(r) ==
  IF r.excs = {}
  THEN last' = [op |-> "repr", attr |-> "", exc |-> "", val |-> r.val]
  ELSE \E e \in r.excs : last' = [op |-> "repr", attr |-> "", exc |-> e, val |-> None]

\* value = result.<attr>
GetAttr(attr) ==
  /\ Did("getattr", attr, getattr(result, local_tz, attr))
  /\ UNCHANGED <<namingVars, clientVars, result, decoded, ipdb>>

\* value = result.<attr>.<nested>, result.<attr> having given a ResultObject
GetNestedAttr(attr) ==
  /\ last.op = "getattr" /\ last.exc = "" /\ last.val.t = "ResultObject"
  /\ Did("getattr_nested", attr, getattr(last.val.v, local_tz, attr))
  /\ UNCHANGED <<namingVars, clientVars, result, decoded, ipdb>>

\* result.<attr> = value
SetAttr(attr, value) ==
  /\ \E debuggerCommand \in {"continue", "quit"} :
       Assigned(attr, __setattr__(result, ipdb, debuggerCommand, attr, value))
  /\ UNCHANGED <<namingVars, clientVars, decoded, ipdb>>

\* repr(result)
Repr ==
  /\ Printed(__repr__(result, local_tz))
  /\ UNCHANGED <<namingVars, clientVars, result, decoded, ipdb>>

\* dir(result)
Dir ==
  /\ last' = [op |-> "dir", attr |-> "", exc |-> "",
              val |-> [t |-> "names", v |-> __dir__(result)]]
  /\ UNCHANGED <<namingVars, clientVars, result, decoded, ipdb>>

NextResult ==
  \/ \E attr \in AttrNames : GetAttr(attr)
  \/ \E attr \in NestedAttrNames : GetNestedAttr(attr)
  \/ \E attr \in AssignedNames, value \in AssignedValues : SetAttr(attr, value)
  \/ Repr
  \/ Dir

SpecResult == InitResult /\ [][NextResult]_vars

\* An underscore directly followed by another one.
RepeatedUnderscore(s) ==
  \E i \in 1..(Len(s) - 1) : Char(s, i) = "_" /\ Char(s, i + 1) = "_"

\* A one-letter segment after the first that is directly followed by a
\* segment starting with a letter: "_x_y". Its camelCase form holds two
\* adjacent capitals.
AdjacentCapitals(s) ==
  \E i \in 1..(Len(s) - 3) :
     /\ Char(s, i) = "_"
     /\ IsLetter(Char(s, i + 1))
     /\ Char(s, i + 2) = "_"
     /\ IsLetter(Char(s, i + 3))

\* C7 as stated: every snake_case identifier (single-letter segments,
\* digit-leading segments and repeated underscores included) survives
\* _to_lower_underscore(_to_camel_case(s)).
C7_RoundTripAll == npc = "done" => snake = ident

\* C7 amended: a snake_case identifier with no repeated underscore and no
\* one-letter segment (after the first) directly followed by a letter-leading
\* segment survives the round trip; digit-leading and other single-letter
\* segments included.
C7_RoundTripOrdinary ==
  (npc = "done" /\ ~RepeatedUnderscore(ident) /\ ~AdjacentCapitals(ident))
    => snake = ident

\* C7 witness: a multi-segment identifier with a digit-leading segment and a
\* single-letter last segment has made the round trip.
C7_Witness ==
  /\ npc = "done"
  /\ ident = "a_1_b"
  /\ camel = "a_1B"
  /\ snake = ident

-----------------------------------------------------------------------------
(* The claims about a call (Spec).                                         *)

\* The decoded response document of the finished call, when it is a JSON
\* object, and the presence and value of its flags.
Answered == pc = "called" /\ response.json.t = "dict"
HasField(k) == k \in DOMAIN response.json.v
FieldIs(k, b) == HasField(k) /\ response.json.v[k].t = "bool" /\ response.json.v[k].v = b
NonEmptyList(k) ==
  HasField(k) /\ response.json.v[k].t = "list" /\ Len(response.json.v[k].v) > 0

RaisedClass(class) == outcome.kind = "raised" /\ outcome.exc = class

\* C1: a failed response that reports a validation failure with a non-empty
\* validation-failure list raises GatewayValidationError, with one message
\* per failure and the result's list of failures as validation_failures.
C1_ValidationErrorRaised ==
  (/\ Answered
   /\ FieldIs("isSuccess", FALSE)
   /\ FieldIs("validationHasFailed", TRUE)
   /\ NonEmptyList("validationFailures"))
  => /\ RaisedClass("GatewayValidationError")
     /\ Len(outcome.self["error_messages"].v)
          = Len(response.json.v["validationFailures"].v)
     /\ outcome.self["validation_failures"]
          = getattr(Result(response, client.result_opts), local_tz,
                    "validation_failures").val

\* C2: a response body that is no JSON ends in the generic GatewayError
\* whose error_messages is the raw body alone; no parse or lookup error.
C2_NonJsonRaisesGatewayError ==
  (pc = "called" /\ response.json.t = "JSONDecodeError")
  => /\ RaisedClass("GatewayError")
     /\ outcome.self["error_messages"] = List(<<Str(response.text)>>)

\* C3: a failed response with no validation-failure list, its validation
\* flag false or missing, raises the generic GatewayError, which carries the
\* wrapped result and has the first entry of errorMessages as its message.
C3_GenericErrorRaised ==
  (/\ Answered
   /\ FieldIs("isSuccess", FALSE)
   /\ ~HasField("validationFailures")
   /\ ~FieldIs("validationHasFailed", TRUE)
   /\ NonEmptyList("errorMessages"))
  => /\ RaisedClass("GatewayError")
     /\ outcome.self["result"].v = Result(response, client.result_opts)
     /\ outcome.self["args"] = response.json.v["errorMessages"].v[1]

\* C4: whenever the decoded document has isSuccess = true the call returns
\* a Result that wraps exactly that document, whatever else the document
\* holds or lacks, for every operation and every set of parameters.
C4_SuccessReturnsResult ==
  (Answered /\ FieldIs("isSuccess", TRUE))
  => /\ outcome.kind = "returned"
     /\ outcome.self["_data"] = response.json

\* C4 witness: a query answered by a document that holds isSuccess = true
\* and nothing else has returned its Result.
C4_Witness ==
  /\ pc = "called"
  /\ call.method = "query"
  /\ response.json.t = "dict"
  /\ DOMAIN response.json.v = {"isSuccess"}
  /\ response.json.v["isSuccess"].v
  /\ outcome.kind = "returned"

\* The action names the specification enumerates.
SpecActions ==
  {"Auth", "AuthUsingVault", "Sale", "SaleUsingVault", "Credit",
   "CreditRetailOnly", "CreditRetailOnlyUsingVault", "Void", "ReAuth",
   "ReSale", "ReDebit", "Query", "CloseBatch", "Settle", "TipAdjust",
   "AchVoid", "AchCredit", "AchDebit", "AchCreditUsingVault",
   "AchDebitUsingVault", "AchGetCategories", "AchCreateCategory",
   "AchDeleteCategory", "AchSetupStore", "VaultCreateContainer",
   "VaultCreateAchRecord", "VaultCreateCCRecord", "VaultCreateShippingRecord",
   "VaultDeleteContainerAndAllAsscData", "VaultDeleteAchRecord",
   "VaultDeleteCCRecord", "VaultDeleteShippingRecord", "VaultUpdateContainer",
   "VaultUpdateAchRecord", "VaultUpdateCCRecord", "VaultUpdateShippingRecord",
   "VaultQueryVault", "VaultQueryCCRecord", "VaultQueryAchRecord",
   "VaultQueryShippingRecord", "RecurringModify", "AccountUpdaterSubmit",
   "AccountUpdaterSubmitVault", "AccountUpdaterReturn"}

\* C8: every operation method posts to the base URL (the test domain iff
\* test_mode) followed by an action name of the specification's enumeration,
\* spelled as listed there.
C8_PostsToListedAction ==
  pc = "called"
  => \E action \in SpecActions :
       call.url = (IF client.test_mode
                   THEN "https://secure-v.goemerchant.com/secure/RestGW/Gateway/Transaction/"
                   ELSE "https://secure.1stpaygateway.net/secure/RestGW/Gateway/Transaction/")
                  \o action

\* What C9 expects of a boundary: a bare date gets the start or the end of
\* its day, a datetime keeps its own time of day; naive values are local;
\* the result is read in UTC.
BoundaryInUTC(prefix, b) ==
  astimezone(IF b.t = "date"
             THEN (IF prefix = "end" THEN combine(b, 23, 59, 59, 999999)
                   ELSE combine(b, 0, 0, 0, 0))
             ELSE b,
             "tz", tzutc, local_tz).val.v

SixParameters(Prefix, utc) ==
  /\ call.post_data["query" \o Prefix \o "Year"] = Num(utc.year)
  /\ call.post_data["query" \o Prefix \o "Month"] = Num(utc.month)
  /\ call.post_data["query" \o Prefix \o "Day"] = Num(utc.day)
  /\ call.post_data["query" \o Prefix \o "Hour"] = Num(utc.hour % 12)
  /\ call.post_data["query" \o Prefix \o "Minute"] = Num(utc.minute)
  /\ call.post_data["query" \o Prefix \o "AMPM"]
       = Str(IF utc.hour < 12 THEN "AM" ELSE "PM")

\* C9: query sends, for each boundary present, the six parameters of the
\* boundary's UTC value (a bare date at the start or end of its day, a
\* datetime at its own time of day), query_time_zone_offset = 0 iff a
\* boundary is present, and neither start_date nor end_date.
C9_QueryParameters ==
  (pc = "called" /\ call.method = "query")
  => /\ ("queryTimeZoneOffset" \in DOMAIN call.post_data)
          <=> ({"start_date", "end_date"} \cap DOMAIN call.data # {})
     /\ {"startDate", "endDate", "start_date", "end_date"}
          \cap DOMAIN call.post_data = {}
     /\ "start_date" \in DOMAIN call.data
          => SixParameters("Start", BoundaryInUTC("start", call.data["start_date"]))
     /\ "end_date" \in DOMAIN call.data
          => SixParameters("End", BoundaryInUTC("end", call.data["end_date"]))

-----------------------------------------------------------------------------
(* The claims about the wrapper (SpecResult).                              *)

\* C5: with the gateway zone America/New_York, result.trans_date_and_time
\* over transDateAndTime = "2023-01-15T10:30:00" is 2023-01-15T15:30:00 UTC.
C5_TransDateInUTC ==
  (/\ last.op = "getattr"
   /\ last.attr = "trans_date_and_time"
   /\ "transDateAndTime" \in DOMAIN decoded.v
   /\ result["_opts"].v["gateway_tz"].v = "America/New_York")
  => /\ last.exc = ""
     /\ last.val.t = "datetime"
     /\ last.val.v.year = 2023 /\ last.val.v.month = 1 /\ last.val.v.day = 15
     /\ last.val.v.hour = 15 /\ last.val.v.minute = 30 /\ last.val.v.second = 0
     /\ last.val.v.tzinfo.t = "tzinfo"
     /\ last.val.v.tzinfo.v = 0

\* C6: assigning an attribute whose name does not start with an underscore
\* fails with the read-only AttributeError and nothing else, and the
\* document is the decoded one afterwards.
C6_AssignmentIsReadOnlyError ==
  (last.op = "setattr" /\ ~StartsWithUnderscore(last.attr))
  => /\ last.exc = "AttributeError"
     /\ result["_data"] = decoded

\* The tree C10 expects of repr: every key in snake_case, every date-like
\* string leaf as ISO-8601 text, every other leaf and every list element
\* that is no object unchanged.
RECURSIVE RenderedTree(_)
RenderedTree(x) ==
  IF x.t = "dict"
  THEN Dict([nk \in {_to_lower_underscore(k) : k \in DOMAIN x.v} |->
               RenderedTree(x.v[CHOOSE k \in DOMAIN x.v : _to_lower_underscore(k) = nk])])
  ELSE IF x.t = "list" THEN List([i \in 1..Len(x.v) |-> RenderedTree(x.v[i])])
  ELSE IF x.t = "str" /\ ISO_DATETIME_RE(x.v) THEN Str(isoformat(parse_iso(x.v).val))
  ELSE x

\* C10: repr of a result raises nothing and renders the whole tree.
C10_ReprRendersTree ==
  last.op = "repr"
  => /\ last.exc = ""
     /\ last.val = _json_dump(RenderedTree(decoded))

====
